---- MODULE Spec2Model ----
(***************************************************************************)
(* The salon backend: the Appointment collection, the AppointmentService   *)
(* operations that write it and the staff availability queries they        *)
(* consult (src/src/services/appointmentService.js, the Appointment and    *)
(* Staff schemas in src/unnamed/part_006, part_007); the model router      *)
(* (dbSelector, src/unnamed/part_000) and the two database connections     *)
(* (src/src/config/db.js); the inventory items and stock movements of      *)
(* InventoryService (src/src/services/inventoryService.js, the Inventory   *)
(* schema in src/unnamed/part_005).                                        *)
(*                                                                         *)
(* Instants are minutes of one day on a quarter-hour grid starting at      *)
(* 10:00 (600).  An optional argument (a JavaScript undefined/null) is a   *)
(* set with no element, a given one a set with one element.                *)
(***************************************************************************)
EXTENDS Integers, FiniteSets, Sequences, TLC

\* ------------------------------------------------------------------ bounds
\* Appointments ever booked in the scheduling specification, and in the
\* specification of bookings of different lengths.
MaxAppts == 1
MaxOverlapping == 2
NumSlots == 3
NumProcs == 2
\* Models compiled on the two connections in the routing specification.
MaxModels == 2
\* Inventory items ever created, and inventory movements ever recorded.
MaxItems == 1
MaxMovements == 2
MaxNotifications == 2
MaxOrders == 1

\* --------------------------------------------------------------- constants
\* checkStaffAvailability(staffId, scheduledAt, duration = 60, ...), and the
\* `data.duration || 60` of its callers.
DefaultDuration == 60
\* getAvailableTimeSlots: setHours(9, ...), setHours(18, ...) and the step
\* addMinutes(current, 30).
OpeningHour == 9
ClosingHour == 18
SlotStep == 30

Ids == 1..MaxAppts
Times == {600 + 15 * i : i \in 0..(NumSlots - 1)}
Tenants == {"t1", "t2"}

\* The Staff collection (staffSchema: tenantId, active).
StaffRecords ==
  { [_id |-> "s1", tenantId |-> "t1", active |-> TRUE],
    [_id |-> "s2", tenantId |-> "t2", active |-> TRUE] }
\* The staff identifiers bookings are made for.
StaffIds == {s._id : s \in StaffRecords}
\* Identifiers a caller may ask about: "s9" is one no staff record carries.
StaffArgs == StaffIds \cup {"s9"}
ResolvesToActiveStaff(staffId) ==
  \E s \in StaffRecords : s._id = staffId /\ s.active

\* appointmentSchema.status: enum ["booked", "completed", "cancelled"].
SchemaStatusEnum == {"booked", "completed", "cancelled"}
\* Status strings a caller may pass to updateAppointmentStatus: those the
\* service writes or reads itself, and "confirmed", the word its header
\* comment uses.
StatusArgs ==
  {"booked", "completed", "cancelled", "no-show", "rescheduled", "in-progress",
   "confirmed"}
\* status: { $in: ["booked", "in-progress"] }
ActiveStatuses == {"booked", "in-progress"}

None == {}
Some(v) == {v}
Opt(S) == {None} \cup {Some(v) : v \in S}
The(o) == CHOOSE v \in o : TRUE

\* Durations a booking request carries (data.duration): absent, 0 (falsy) or
\* a length in minutes.
DataDurations == Opt({0, 30})
\* Durations handed to checkStaffAvailability directly.
DurationArgs == Opt({-30, 0, 30, 60})

VARIABLES
  appointments,  \* the Appointment collection: a set of documents
  nextId,        \* the next fresh _id (ObjectIds are never reused)
  requested,     \* history: _id -> the duration the booking asked for
  last,          \* the last service call: [op, outcome, unhandled, slots]
  pc,            \* concurrent createAppointment calls: position of each
  req,           \* concurrent createAppointment calls: the data of each
  staff,         \* the Staff collection: a set of documents
  models,        \* dbSelector: connection -> the model names compiled on it
  uri,           \* db.js: the `uri` each connect function read from the env
  dbpc,          \* db.js: position of each connect function
  readyState,    \* db.js: state of each mongoose connection
  connectPc,     \* db.js: position of connectDB
  exitCode,      \* the code of process.exit, if the process has exited
  log,           \* db.js: the logger calls, in order
  inventory,     \* the Inventory collection: a set of documents
  nextItemId,    \* the next fresh Inventory _id
  initialStock,  \* history: _id -> the stockLevel createInventory was given
  movements,     \* the InventoryMovement collection, in insertion order
  spc,           \* concurrent updateStock calls: position of each
  sloc,          \* concurrent updateStock calls: arguments and locals of each
  purchaseOrders,      \* the PurchaseOrder collection: a set of documents
  nextOrderId,         \* the next fresh PurchaseOrder _id
  notifications,       \* the Notification collection: a set of documents
  nextNotificationId   \* the next fresh Notification _id

appointmentVars == <<appointments, nextId, requested, pc, req>>
staffVars == <<staff>>
routerVars == <<models>>
dbVars == <<uri, dbpc, readyState, connectPc, exitCode, log>>
inventoryVars == <<inventory, nextItemId, initialStock, movements, spc, sloc>>
purchaseVars == <<purchaseOrders, nextOrderId>>
notificationVars == <<notifications, nextNotificationId>>
extraVars == <<purchaseVars, notificationVars>>
notAppointmentVars == <<staffVars, routerVars, dbVars, inventoryVars, extraVars>>

vars == <<appointmentVars, staffVars, last, routerVars, dbVars, inventoryVars, extraVars>>

Procs == 1..NumProcs

\* db.js: superAdminConnection and salonAdminConnection.
Connections == {"superAdmin", "salonAdmin"}

\* ------------------------------------------------------- date-fns, mongoose
\* addMinutes(date, amount)
AddMinutes(start, amount) == start + amount

\* Appointment.findOne({ _id, tenantId }) / the filter of findOneAndUpdate
FindByIdAndTenant(store, appointmentId, salonId) ==
  {a \in store : a._id = appointmentId /\ a.tenantId = salonId}

\* `x || 60` on an optional number: undefined and 0 are falsy.
OrDefault(d) == IF d = None \/ d = Some(0) THEN DefaultDuration ELSE The(d)

\* A default parameter (duration = 60) applies to undefined only.
ParamDefault(d) == IF d = None THEN DefaultDuration ELSE The(d)

\* ------------------------------------------------- checkStaffAvailability
\* Variants of the filter with one condition changed: the upper end of the
\* window included, the exclusion left out, the status condition left out.
OverlappingInclusiveEnd(store, staffId, scheduledAt, duration, excludeAppointmentId) ==
  {a \in store :
     /\ a.staffId = staffId
     /\ a._id \notin excludeAppointmentId
     /\ a.scheduledAt <= AddMinutes(scheduledAt, ParamDefault(duration))
     /\ a.scheduledAt >= scheduledAt
     /\ a.status \in ActiveStatuses}

OverlappingNoExclude(store, staffId, scheduledAt, duration, excludeAppointmentId) ==
  {a \in store :
     /\ a.staffId = staffId
     /\ a.scheduledAt < AddMinutes(scheduledAt, ParamDefault(duration))
     /\ a.scheduledAt >= scheduledAt
     /\ a.status \in ActiveStatuses}

OverlappingAnyStatus(store, staffId, scheduledAt, duration, excludeAppointmentId) ==
  {a \in store :
     /\ a.staffId = staffId
     /\ a._id \notin excludeAppointmentId
     /\ a.scheduledAt < AddMinutes(scheduledAt, ParamDefault(duration))
     /\ a.scheduledAt >= scheduledAt}

\* The documents the findOne filter of checkStaffAvailability matches.
Overlapping(store, staffId, scheduledAt, duration, excludeAppointmentId) ==
  LET start == scheduledAt
      end   == AddMinutes(start, ParamDefault(duration))
  IN  {a \in store :
         /\ a.staffId = staffId
         /\ a._id \notin excludeAppointmentId
         /\ a.scheduledAt < end /\ a.scheduledAt >= start
         /\ a.status \in ActiveStatuses}

CheckStaffAvailability(store, staffId, scheduledAt, duration, excludeAppointmentId) ==
  Overlapping(store, staffId, scheduledAt, duration, excludeAppointmentId) = {}

Returned(op, outcome) ==
  [op |-> op, outcome |-> outcome, unhandled |-> FALSE, slots |-> {}]
\* sendNotification(null, ...) reads appointment._id of null inside an async
\* function nobody awaits: the call returns null and a rejection is left
\* unhandled.
ReturnedNull(op) ==
  [op |-> op, outcome |-> "null", unhandled |-> TRUE, slots |-> {}]

\* new Appointment({ ...data, status: "booked" }): strict mode keeps the
\* schema's paths only, so data.duration is not part of the document.
NewAppointment(id, data) ==
  [_id |-> id, tenantId |-> The(data.tenantId), staffId |-> data.staffId,
   scheduledAt |-> data.scheduledAt, status |-> "booked"]

\* The update document applied by findOneAndUpdate: paths outside the schema
\* (duration, cancelReason) are dropped, validators (the status enum) do not
\* run on updates.
ApplyUpdate(a, updateData) ==
  [a EXCEPT
     !.scheduledAt = IF updateData.scheduledAt = None THEN @ ELSE The(updateData.scheduledAt),
     !.staffId = IF updateData.staffId = None THEN @ ELSE The(updateData.staffId),
     !.status = IF updateData.status = None THEN @ ELSE The(updateData.status)]

\* A variant that drops the matched document instead of updating it.
FindOneAndUpdateDropping(store, appointmentId, salonId, updateData) ==
  store \ FindByIdAndTenant(store, appointmentId, salonId)

\* Appointment.findOneAndUpdate({ _id, tenantId }, update, { new: true }):
\* the store after it.
FindOneAndUpdate(store, appointmentId, salonId, updateData) ==
  {IF a \in FindByIdAndTenant(store, appointmentId, salonId)
     THEN ApplyUpdate(a, updateData) ELSE a : a \in store}

NoUpdate == [scheduledAt |-> None, staffId |-> None, duration |-> None, status |-> None]
StatusUpdate(status) == [NoUpdate EXCEPT !.status = Some(status)]

\* Each operation as a function of the store and its arguments: the store
\* after it and what the caller gets ("ok": a document, "null", or the error
\* thrown).
Result(store, outcome) == [store |-> store, outcome |-> outcome]

\* createAppointment's availability check
CreateAvailable(store, data) ==
  CheckStaffAvailability(store, data.staffId, data.scheduledAt,
                         Some(OrDefault(data.duration)), None)

\* appointment.save(): validation (tenantId is required, the status is one
\* of the schema's enum), then the insert.
SaveResult(store, id, data) ==
  IF data.tenantId = None \/ "booked" \notin SchemaStatusEnum
    THEN Result(store, "ValidationError")
    ELSE Result(store \cup {NewAppointment(id, data)}, "ok")

\* A variant that saves without looking at the availability check.
CreateResultUnchecked(store, id, data) == SaveResult(store, id, data)

CreateResult(store, id, data) ==
  IF ~CreateAvailable(store, data)
    THEN Result(store, "Conflict")
    ELSE SaveResult(store, id, data)

\* updateAppointment checks the slot only when updateData carries both
\* scheduledAt and staffId.
UpdateChecked(updateData) ==
  updateData.scheduledAt # None /\ updateData.staffId # None

UpdateAvailable(store, appointmentId, updateData) ==
  CheckStaffAvailability(store, The(updateData.staffId), The(updateData.scheduledAt),
                         Some(OrDefault(updateData.duration)), Some(appointmentId))

UpdateResult(store, appointmentId, updateData, salonId) ==
  IF UpdateChecked(updateData) /\ ~UpdateAvailable(store, appointmentId, updateData)
    THEN Result(store, "Conflict")
    ELSE Result(FindOneAndUpdate(store, appointmentId, salonId, updateData),
                IF FindByIdAndTenant(store, appointmentId, salonId) = {}
                  THEN "null" ELSE "ok")

\* updateAppointmentStatus, cancelAppointment and handleNoShow: one
\* findOneAndUpdate of the status, then the notification.
UpdateStatusResult(store, appointmentId, status, salonId) ==
  Result(FindOneAndUpdate(store, appointmentId, salonId, StatusUpdate(status)),
         IF FindByIdAndTenant(store, appointmentId, salonId) = {} THEN "null" ELSE "ok")

CancelResult(store, appointmentId, salonId) ==
  UpdateStatusResult(store, appointmentId, "cancelled", salonId)

NoShowResult(store, appointmentId, salonId) ==
  UpdateStatusResult(store, appointmentId, "no-show", salonId)

DeleteResult(store, appointmentId, salonId) ==
  Result(store \ FindByIdAndTenant(store, appointmentId, salonId),
         IF FindByIdAndTenant(store, appointmentId, salonId) = {} THEN "null" ELSE "ok")

\* The staff member rescheduleAppointment checks and assigns:
\* newStaffId || appointment.staffId.
RescheduleStaff(appointment, newStaffId) ==
  IF newStaffId = None THEN appointment.staffId ELSE The(newStaffId)

\* rescheduleAppointment reads appointment.duration, a path the schema does
\* not have: undefined, so the check runs with the default duration.
RescheduleAvailable(store, appointment, newScheduledAt, newStaffId) ==
  CheckStaffAvailability(store, RescheduleStaff(appointment, newStaffId),
                         newScheduledAt, None, Some(appointment._id))

RescheduleResult(store, appointmentId, newScheduledAt, newStaffId, salonId) ==
  LET found == FindByIdAndTenant(store, appointmentId, salonId)
  IN  IF found = {} THEN Result(store, "NotFound")
      ELSE IF ~RescheduleAvailable(store, The(found), newScheduledAt, newStaffId)
        THEN Result(store, "Conflict")
      ELSE Result(FindOneAndUpdate(store, appointmentId, salonId,
                    [scheduledAt |-> Some(newScheduledAt),
                     staffId |-> Some(RescheduleStaff(The(found), newStaffId)),
                     duration |-> None, status |-> Some("rescheduled")]),
                  "ok")

\* A direct call of checkStaffAvailability returns a boolean.
CheckOutcome(store, staffId, scheduledAt, duration, excludeAppointmentId) ==
  IF CheckStaffAvailability(store, staffId, scheduledAt, duration, excludeAppointmentId)
    THEN "true" ELSE "false"

\* What getAvailableTimeSlots returns: the slots it found.
ReturnedSlots(op, slots) ==
  [op |-> op, outcome |-> "ok", unhandled |-> FALSE, slots |-> slots]

\* Staff.find(staffQuery): the salon's staff, one member only if staffId is
\* given.
StaffList(staffDocs, salonId, staffId) ==
  {s \in staffDocs : s.tenantId = salonId /\ (staffId = None \/ s._id = The(staffId))}

\* The instants the while loop visits: from 9:00 in steps of 30 minutes
\* while before 18:00 (date is the day's midnight).
SlotTimes(date) ==
  {t \in (date + 60 * OpeningHour)..(date + 60 * ClosingHour - 1) :
     (t - (date + 60 * OpeningHour)) % SlotStep = 0}

\* The slots pushed: for each staff member of the list, each instant
\* checkStaffAvailability answers true for.
AvailableTimeSlots(store, staffDocs, salonId, date, serviceDuration, staffId) ==
  {[staffId |-> s._id, time |-> t] :
     <<s, t>> \in {x \in StaffList(staffDocs, salonId, staffId) \X SlotTimes(date) :
                    CheckStaffAvailability(store, x[1]._id, x[2],
                                           Some(ParamDefault(serviceDuration)), None)}}

\* checkStaffAvailability called with duration null: the default parameter
\* covers undefined only, so addMinutes(start, null) runs.  date-fns makes
\* of it either start itself (the window is empty, the answer true) or an
\* invalid date (the query fails to cast it), depending on its version.
NullDurationOutcomes(store, staffId, scheduledAt, excludeAppointmentId) ==
  {"true", "CastError"}

\* ---------------------------------------------------------------- dbSelector
SUPER_ADMIN_MODELS == <<"User", "Subscription", "Notification">>

SALON_ADMIN_MODELS ==
  <<"Salon", "Staff", "Customer", "Appointment", "Service", "Invoice",
    "Inventory", "Review", "Loyalty", "WalletTransaction">>

\* Array.prototype.includes
Includes(list, x) == \E i \in DOMAIN list : list[i] = x

\* Names createModel and getConnection are called with: the listed ones and
\* the models the services require that are in neither list.
ModelNames ==
  {SUPER_ADMIN_MODELS[i] : i \in DOMAIN SUPER_ADMIN_MODELS}
    \cup {SALON_ADMIN_MODELS[i] : i \in DOMAIN SALON_ADMIN_MODELS}
    \cup {"Supplier", "PurchaseOrder", "InventoryMovement"}

\* Schema objects a model name is compiled with.
Schemas == {"schemaA", "schemaB"}

\* A variant that sends a name in neither list to the super-admin connection.
GetConnectionUnlistedToSuperAdmin(modelName) ==
  IF Includes(SALON_ADMIN_MODELS, modelName) THEN "salonAdmin" ELSE "superAdmin"

GetConnection(modelName) ==
  IF Includes(SUPER_ADMIN_MODELS, modelName) THEN "superAdmin"
  ELSE IF Includes(SALON_ADMIN_MODELS, modelName) THEN "salonAdmin"
  ELSE "salonAdmin"

\* connection.models[name], if the name is compiled on the connection.
Compiled(reg, connection, modelName) ==
  {m \in reg[connection] : m.name = modelName}

\* connection.model(name, schema): the compiled model if there is one with
\* this schema, OverwriteModelError if there is one with another schema,
\* else a new model compiled on the connection.
ConnectionModel(reg, connection, modelName, schema) ==
  LET existing == Compiled(reg, connection, modelName)
  IN  IF existing # {} /\ The(existing).schema # schema
        THEN [models |-> reg, outcome |-> "OverwriteModelError"]
        ELSE [models |-> [reg EXCEPT ![connection] =
                            @ \cup {[name |-> modelName, schema |-> schema]}],
              outcome |-> connection]

\* A variant that compiles a name already compiled on its connection on the
\* other connection.
CreateModelResultAlternating(reg, modelName, schema) ==
  LET connection == GetConnection(modelName)
      other == CHOOSE c \in Connections : c # connection
  IN  IF Compiled(reg, connection, modelName) # {}
        THEN ConnectionModel(reg, other, modelName, schema)
        ELSE ConnectionModel(reg, connection, modelName, schema)

\* createModel(modelName, schema): the registry after it and the connection
\* the returned model is bound to (or the error thrown).
CreateModelResult(reg, modelName, schema) ==
  LET connection == GetConnection(modelName)
  IN  ConnectionModel(reg, connection, modelName, schema)

\* --------------------------------------------------------------------- db.js
\* What process.env holds for SUPER_ADMIN_MONGO_URI / SALON_ADMIN_MONGO_URI:
\* nothing, the empty string, the URI of a server, or a string that is no
\* MongoDB URI.
EnvUris == Opt({"", "mongodb://host/db", "not-a-uri"})

\* !uri
Falsy(u) == u = None \/ u = Some("")

\* A connect function from its call to its first await: without a URI it
\* logs an error and returns, else it calls openUri and awaits it.
Started(u) == IF Falsy(u) THEN "returned" ELSE "opening"
StartLog(c, u) ==
  IF Falsy(u) THEN <<[level |-> "error", connection |-> c, message |-> "not set in env"]>>
  ELSE <<>>

\* ---------------------------------------------------------- inventoryService
\* inventorySchema: tenantId, name, sku, quantity, price.  The service reads
\* and writes stockLevel, lastMovement and minStock, which are no paths of
\* the schema: a strict schema drops them from what is constructed or
\* updated, and reading one from a document yields undefined.
InventorySchemaPaths == {"tenantId", "name", "sku", "quantity", "price"}

ItemIds == 1..MaxItems

\* Inventory.findOne({ _id: itemId, tenantId: salonId })
FindItem(store, itemId, salonId) ==
  {i \in store : i._id = itemId /\ i.tenantId = salonId}

\* item.stockLevel
ReadStockLevel(item) ==
  IF "stockLevel" \in InventorySchemaPaths THEN item.stockLevel ELSE None

\* a + b on numbers that may be undefined or NaN (None): NaN if either is.
Plus(a, b) == IF a = None \/ b = None THEN None ELSE Some(The(a) + The(b))
\* n < 0: false for NaN.
Negative(n) == n # None /\ The(n) < 0

\* new Inventory({ ...data, tenantId: salonId, ... }): the schema's paths of
\* data, tenantId from the salon.
NewItem(id, data, salonId) ==
  [_id |-> id, tenantId |-> salonId, quantity |-> data.quantity]

CreateInventoryResult(store, id, data, salonId) ==
  Result(store \cup {NewItem(id, data, salonId)}, "ok")

\* The update document of updateInventory, applied to a matched item: the
\* schema's paths of updateData.
ApplyItemUpdate(item, updateData) ==
  [item EXCEPT !.quantity = IF updateData.quantity = None THEN @ ELSE updateData.quantity]

\* updateInventory: findOneAndUpdate, then sendNotification reads
\* updated.name, a TypeError when nothing matched.
UpdateInventoryResult(store, itemId, updateData, salonId) ==
  IF FindItem(store, itemId, salonId) = {}
    THEN Result(store, "TypeError")
    ELSE Result({IF i \in FindItem(store, itemId, salonId)
                   THEN ApplyItemUpdate(i, updateData) ELSE i : i \in store}, "ok")

\* deleteInventory: findOneAndDelete; deleted?.name tolerates null.
DeleteInventoryResult(store, itemId, salonId) ==
  Result(store \ FindItem(store, itemId, salonId),
         IF FindItem(store, itemId, salonId) = {} THEN "null" ELSE "ok")

\* updateStock up to item.save(): the item read, the change and the new
\* level computed from it, or the error thrown.
\* -n on a number that may be undefined or NaN (None).
Minus(n) == IF n = None THEN None ELSE Some(0 - The(n))

\* type === "add" ? quantity : -quantity; the quantity may be undefined or
\* NaN (None).
StockChange(quantity, type) == IF type = "add" THEN quantity ELSE Minus(quantity)

StockPlan(store, itemId, quantity, type, salonId) ==
  LET found == FindItem(store, itemId, salonId)
      change == StockChange(quantity, type)
      newStockLevel == Plus(ReadStockLevel(The(found)), change)
  IN  IF found = {} THEN [outcome |-> "NotFound"]
      ELSE IF Negative(newStockLevel) THEN [outcome |-> "InsufficientStock"]
      ELSE [outcome |-> "ok", itemId |-> itemId, salonId |-> salonId, type |-> type,
            change |-> change, newStockLevel |-> newStockLevel]

\* item.save() after item.stockLevel = newStockLevel: the modified paths of
\* the schema are written to the document with the item's _id; stockLevel
\* and lastMovement are none, so nothing is written.
SaveItem(store, plan) ==
  IF "stockLevel" \in InventorySchemaPaths
    THEN {IF i._id = plan.itemId THEN [i EXCEPT !.stockLevel = plan.newStockLevel] ELSE i :
            i \in store}
    ELSE store

\* new InventoryMovement({ itemId, tenantId: salonId, quantity: change, ...,
\* balanceAfter: newStockLevel })
NewMovement(plan) ==
  [itemId |-> plan.itemId, tenantId |-> plan.salonId, quantity |-> plan.change,
   type |-> plan.type, balanceAfter |-> plan.newStockLevel]

\* movement.save(): the InventoryMovement schema is not part of the sources;
\* a balanceAfter that is NaN is stored by an untyped path and fails the
\* cast of a Number path.
MovementSaveOutcomes(movement) ==
  IF movement.balanceAfter = None THEN {"ok", "ValidationError"} ELSE {"ok"}

\* updateStock from its call to its return: the inventory and the movements
\* it leaves, and how it returned.
StockResult(store, recorded, outcome) ==
  [store |-> store, movements |-> recorded, outcome |-> outcome]

UpdateStockResults(store, recorded, itemId, quantity, type, salonId) ==
  LET plan == StockPlan(store, itemId, quantity, type, salonId)
  IN  IF plan.outcome # "ok"
        THEN {StockResult(store, recorded, plan.outcome)}
        ELSE {StockResult(SaveItem(store, plan),
                          IF o = "ok" THEN Append(recorded, NewMovement(plan)) ELSE recorded,
                          o) : o \in MovementSaveOutcomes(NewMovement(plan))}

\* adjustStockLevels: updateStock for each adjustment in turn, each awaited;
\* the first one that throws ends the loop and the call.
RECURSIVE AdjustStockLevelsResults(_, _, _, _)
AdjustStockLevelsResults(store, recorded, adjustments, salonId) ==
  IF adjustments = <<>> THEN {StockResult(store, recorded, "ok")}
  ELSE LET adj == Head(adjustments)
       IN  UNION {IF r.outcome = "ok"
                    THEN AdjustStockLevelsResults(r.store, r.movements, Tail(adjustments),
                                                  salonId)
                    ELSE {r} :
                  r \in UpdateStockResults(store, recorded, adj.itemId, adj.quantity,
                                           adj.type, salonId)}

\* Inventory.findOne({ _id: itemId, salonId }) of performStockCount: salonId
\* is no path of the schema. With strictQuery on, Mongoose takes the key out
\* of the filter and the item is found by its _id; with strictQuery off the
\* key stays and matches the documents that store a salonId, which no item
\* does. Which of the two is the default depends on the Mongoose release.
FindForCount(store, itemId, salonId, strictQuery) ==
  IF "salonId" \in InventorySchemaPaths \/ ~strictQuery
    THEN {i \in store : i._id = itemId /\ "salonId" \in DOMAIN i /\ i.salonId = salonId}
    ELSE {i \in store : i._id = itemId}

\* Math.abs(n), n > 0 ? "add" : "remove", n !== 0 on a number that may be NaN.
Abs(n) == IF n = None THEN None ELSE Some(IF The(n) < 0 THEN 0 - The(n) ELSE The(n))
AddOrRemove(n) == IF n # None /\ The(n) > 0 THEN "add" ELSE "remove"
NotZero(n) == n # Some(0)

\* performStockCount: for each counted item that is found, the difference
\* to item.stockLevel, and updateStock by its amount when it is not 0; an
\* updateStock that throws ends the call.
RECURSIVE PerformStockCountResults(_, _, _, _, _)
PerformStockCountResults(store, recorded, countData, salonId, strictQuery) ==
  IF countData = <<>> THEN {StockResult(store, recorded, "ok")}
  ELSE LET itemId == Head(countData).itemId
           found == FindForCount(store, itemId, salonId, strictQuery)
           diff == Plus(Some(Head(countData).physicalCount), Minus(ReadStockLevel(The(found))))
           rest == Tail(countData)
       IN  IF found = {} \/ ~NotZero(diff)
             THEN PerformStockCountResults(store, recorded, rest, salonId, strictQuery)
             ELSE UNION {IF r.outcome = "ok"
                           THEN PerformStockCountResults(r.store, r.movements, rest, salonId,
                                                         strictQuery)
                           ELSE {r} :
                         r \in UpdateStockResults(store, recorded, itemId, Abs(diff),
                                                  AddOrRemove(diff), salonId)}

\* trackServiceUsage: updateStock(itemId, quantity, "remove", ..., null, null)
\* for each used product; the salon passed is null, which is no item's
\* tenantId (a required path).
NullSalon == "null"

RECURSIVE TrackServiceUsageResults(_, _, _)
TrackServiceUsageResults(store, recorded, usedProducts) ==
  IF usedProducts = <<>> THEN {StockResult(store, recorded, "ok")}
  ELSE UNION {IF r.outcome = "ok"
                THEN TrackServiceUsageResults(r.store, r.movements, Tail(usedProducts))
                ELSE {r} :
              r \in UpdateStockResults(store, recorded, Head(usedProducts).itemId,
                                       Head(usedProducts).quantity, "remove", NullSalon)}

\* Purchase orders. The PurchaseOrder schema is not part of the sources; a
\* document carries what the service writes and reads: tenantId and status.
OrderIds == 1..MaxOrders
\* Order ids a caller may pass: those of the orders and one of no order.
OrderArgs == 1..(MaxOrders + 1)

\* new PurchaseOrder({ ...orderData, tenantId: salonId, ..., status: "pending" })
NewPurchaseOrder(id, salonId) == [_id |-> id, tenantId |-> salonId, status |-> "pending"]

\* The loop of receivePurchaseOrder: updateStock(itemId, quantity, "add", ...,
\* po.tenantId, userId) for each received item, each awaited; the costPrice
\* of findByIdAndUpdate is no path of the Inventory schema and is dropped.
RECURSIVE ReceiveItemsResults(_, _, _, _)
ReceiveItemsResults(store, recorded, receivingData, tenantId) ==
  IF receivingData = <<>> THEN {StockResult(store, recorded, "ok")}
  ELSE UNION {IF r.outcome = "ok"
                THEN ReceiveItemsResults(r.store, r.movements, Tail(receivingData), tenantId)
                ELSE {r} :
              r \in UpdateStockResults(store, recorded, Head(receivingData).itemId,
                                       Head(receivingData).quantity, "add", tenantId)}

\* receivePurchaseOrder: findById, "Purchase order not found" when there is
\* none; else the order is saved with status "received" and then the stock
\* of the received items is added.
ReceivePurchaseOrderResults(store, recorded, orders, orderId, receivingData) ==
  LET found == {o \in orders : o._id = orderId}
      saved == {IF o \in found THEN [o EXCEPT !.status = "received"] ELSE o : o \in orders}
  IN  IF found = {}
        THEN {[store |-> store, movements |-> recorded, orders |-> orders,
               outcome |-> "OrderNotFound"]}
        ELSE {[store |-> r.store, movements |-> r.movements, orders |-> saved,
               outcome |-> r.outcome] :
              r \in ReceiveItemsResults(store, recorded, receivingData, The(found).tenantId)}

\* ------------------------------------------------------------ notifications
\* The paths of notificationSchema; updates and constructors keep these and
\* drop every other key (strict schema).
NotificationSchemaPaths ==
  {"userId", "salonId", "type", "title", "message", "priority", "isRead", "readAt",
   "metadata", "actionRequired", "actionUrl", "expiresAt"}

Users == {"u1", "u2"}
NotificationIds == 1..MaxNotifications

\* new Notification({ ...data, createdAt, status: "pending" }): isRead takes
\* its default false, readAt is absent.
NewNotification(id, userId) ==
  [_id |-> id, userId |-> userId, isRead |-> FALSE, readAt |-> None]

\* An update document applied to a matched notification: the keys that are
\* paths of the schema are set, the others are dropped.
ApplyNotificationUpdate(doc, update) ==
  [f \in DOMAIN doc |->
     IF f \in DOMAIN update /\ f \in NotificationSchemaPaths THEN update[f] ELSE doc[f]]

\* Notification.findOneAndUpdate({ _id: notificationId, userId },
\*   { read: true, readAt: new Date() }, { new: true })
MarkAsReadUpdate == [read |-> TRUE, readAt |-> Some("now")]

MarkAsReadResult(store, notificationId, userId) ==
  LET found == {n \in store : n._id = notificationId /\ n.userId = userId}
  IN  Result({IF n \in found THEN ApplyNotificationUpdate(n, MarkAsReadUpdate) ELSE n :
                n \in store},
             IF found = {} THEN "null" ELSE "ok")

\* statics.markMultipleAsRead: updateMany({ _id: { $in: ids }, userId },
\*   { isRead: true, readAt: new Date() })
MarkMultipleUpdate == [isRead |-> TRUE, readAt |-> Some("now")]

MarkMultipleAsReadResult(store, notificationIds, userId) ==
  Result({IF n._id \in notificationIds /\ n.userId = userId
            THEN ApplyNotificationUpdate(n, MarkMultipleUpdate) ELSE n : n \in store},
         "ok")

\* statics.getUnreadCount: countDocuments({ userId, isRead: false })
GetUnreadCount(store, userId) ==
  Cardinality({n \in store : n.userId = userId /\ n.isRead = FALSE})

\* -------------------------------------------------------------- operations
\* What the caller of an operation that notifies without awaiting sees.
Notified(op, outcome) ==
  IF outcome = "null" THEN ReturnedNull(op) ELSE Returned(op, outcome)

CreateAppointment(data) ==
  LET r == CreateResult(appointments, nextId, data)
  IN  /\ appointments' = r.store
      /\ nextId' = IF r.outcome = "ok" THEN nextId + 1 ELSE nextId
      /\ requested' = IF r.outcome = "ok"
                        THEN requested @@ (nextId :> OrDefault(data.duration))
                        ELSE requested
      /\ last' = Returned("createAppointment", r.outcome)
      /\ UNCHANGED <<pc, req, notAppointmentVars>>

UpdateAppointment(appointmentId, updateData, salonId) ==
  LET r == UpdateResult(appointments, appointmentId, updateData, salonId)
  IN  /\ appointments' = r.store
      /\ last' = Notified("updateAppointment", r.outcome)
      /\ UNCHANGED <<nextId, requested, pc, req, notAppointmentVars>>

UpdateAppointmentStatus(appointmentId, status, salonId) ==
  LET r == UpdateStatusResult(appointments, appointmentId, status, salonId)
  IN  /\ appointments' = r.store
      /\ last' = Notified("updateAppointmentStatus", r.outcome)
      /\ UNCHANGED <<nextId, requested, pc, req, notAppointmentVars>>

CancelAppointment(appointmentId, salonId) ==
  LET r == CancelResult(appointments, appointmentId, salonId)
  IN  /\ appointments' = r.store
      /\ last' = Notified("cancelAppointment", r.outcome)
      /\ UNCHANGED <<nextId, requested, pc, req, notAppointmentVars>>

HandleNoShow(appointmentId, salonId) ==
  LET r == NoShowResult(appointments, appointmentId, salonId)
  IN  /\ appointments' = r.store
      /\ last' = Notified("handleNoShow", r.outcome)
      /\ UNCHANGED <<nextId, requested, pc, req, notAppointmentVars>>

DeleteAppointment(appointmentId, salonId) ==
  LET r == DeleteResult(appointments, appointmentId, salonId)
  IN  /\ appointments' = r.store
      /\ requested' = IF r.outcome = "ok"
                        THEN [i \in DOMAIN requested \ {appointmentId} |-> requested[i]]
                        ELSE requested
      /\ last' = Returned("deleteAppointment", r.outcome)
      /\ UNCHANGED <<nextId, pc, req, notAppointmentVars>>

RescheduleAppointment(appointmentId, newScheduledAt, newStaffId, salonId) ==
  LET r == RescheduleResult(appointments, appointmentId, newScheduledAt, newStaffId, salonId)
  IN  /\ appointments' = r.store
      /\ last' = Returned("rescheduleAppointment", r.outcome)
      /\ UNCHANGED <<nextId, requested, pc, req, notAppointmentVars>>

CheckStaffAvailabilityCall(staffId, scheduledAt, duration, excludeAppointmentId) ==
  /\ last' = Returned("checkStaffAvailability",
                      CheckOutcome(appointments, staffId, scheduledAt, duration,
                                   excludeAppointmentId))
  /\ UNCHANGED <<appointments, nextId, requested, pc, req, notAppointmentVars>>

\* A variant that marks the staff it lists as busy in the Staff collection.
GetAvailableTimeSlotsMarking(salonId, date, serviceDuration, staffId) ==
  /\ last' = ReturnedSlots("getAvailableTimeSlots",
                AvailableTimeSlots(appointments, staff, salonId, date,
                                   serviceDuration, staffId))
  /\ staff' = {IF s \in StaffList(staff, salonId, staffId)
                 THEN [s EXCEPT !.active = FALSE] ELSE s : s \in staff}
  /\ UNCHANGED <<appointments, nextId, requested, pc, req, routerVars, dbVars,
                 inventoryVars, extraVars>>

GetAvailableTimeSlots(salonId, date, serviceDuration, staffId) ==
  /\ last' = ReturnedSlots("getAvailableTimeSlots",
                AvailableTimeSlots(appointments, staff, salonId, date,
                                   serviceDuration, staffId))
  /\ UNCHANGED <<appointments, nextId, requested, pc, req, notAppointmentVars>>

\* Two requests in flight: createAppointment awaits the availability query,
\* then the save; another request's steps run between the two.
CreateCheck(p, data) ==
  /\ pc[p] = "start"
  /\ req' = [req EXCEPT ![p] = Some(data)]
  /\ IF CreateAvailable(appointments, data)
       THEN /\ pc' = [pc EXCEPT ![p] = "checked"]
            /\ UNCHANGED last
       ELSE /\ pc' = [pc EXCEPT ![p] = "threw"]
            /\ last' = Returned("createAppointment", "Conflict")
  /\ UNCHANGED <<appointments, nextId, requested, notAppointmentVars>>

CreateSave(p) ==
  LET data == The(req[p])
      r == SaveResult(appointments, nextId, data)
  IN  /\ pc[p] = "checked"
      /\ appointments' = r.store
      /\ nextId' = IF r.outcome = "ok" THEN nextId + 1 ELSE nextId
      /\ requested' = IF r.outcome = "ok"
                        THEN requested @@ (nextId :> OrDefault(data.duration))
                        ELSE requested
      /\ last' = Returned("createAppointment", r.outcome)
      /\ pc' = [pc EXCEPT ![p] = IF r.outcome = "ok" THEN "returned" ELSE "threw"]
      /\ UNCHANGED <<req, notAppointmentVars>>

\* dbSelector
GetConnectionCall(modelName) ==
  /\ last' = Returned("getConnection", GetConnection(modelName))
  /\ UNCHANGED <<appointmentVars, extraVars, staffVars, routerVars, dbVars, inventoryVars>>

CreateModel(modelName, schema) ==
  LET r == CreateModelResult(models, modelName, schema)
  IN  /\ models' = r.models
      /\ last' = Returned("createModel", r.outcome)
      /\ UNCHANGED <<appointmentVars, extraVars, staffVars, dbVars, inventoryVars>>

\* db.js.  connectDB calls both connect functions, each of which runs to its
\* first await, and awaits Promise.all of the two.
ConnectDB(superAdminUri, salonAdminUri) ==
  LET env == [superAdmin |-> superAdminUri, salonAdmin |-> salonAdminUri]
  IN  /\ connectPc = "idle" /\ exitCode = None
      /\ uri' = env
      /\ dbpc' = [c \in Connections |-> Started(env[c])]
      /\ readyState' = [c \in Connections |->
                          IF Falsy(env[c]) THEN readyState[c] ELSE "connecting"]
      /\ log' = log \o StartLog("superAdmin", superAdminUri)
                    \o StartLog("salonAdmin", salonAdminUri)
      /\ connectPc' = "awaiting"
      /\ UNCHANGED <<exitCode, last, appointmentVars, extraVars, staffVars, routerVars, inventoryVars>>

\* openUri resolves: the connection is open, the function logs and returns.
OpenUriResolves(c) ==
  /\ dbpc[c] = "opening" /\ exitCode = None
  /\ uri[c] = Some("mongodb://host/db")
  /\ readyState' = [readyState EXCEPT ![c] = "connected"]
  /\ dbpc' = [dbpc EXCEPT ![c] = "returned"]
  /\ log' = Append(log, [level |-> "info", connection |-> c, message |-> "connected"])
  /\ UNCHANGED <<uri, connectPc, exitCode, last, appointmentVars, extraVars, staffVars, routerVars,
                 inventoryVars>>

\* openUri throws (no server answers, or the string is no URI): the catch
\* block logs and calls process.exit(1).
OpenUriRejects(c) ==
  /\ dbpc[c] = "opening" /\ exitCode = None
  /\ readyState' = [readyState EXCEPT ![c] = "disconnected"]
  /\ dbpc' = [dbpc EXCEPT ![c] = "exited"]
  /\ log' = Append(log, [level |-> "error", connection |-> c, message |-> "connection error"])
  /\ exitCode' = Some(1)
  /\ UNCHANGED <<uri, connectPc, last, appointmentVars, extraVars, staffVars, routerVars, inventoryVars>>

\* Promise.all resolves once both connect functions have returned.
ConnectDBResolves ==
  /\ connectPc = "awaiting" /\ exitCode = None
  /\ \A c \in Connections : dbpc[c] = "returned"
  /\ connectPc' = "resolved"
  /\ UNCHANGED <<uri, dbpc, readyState, exitCode, log, last, appointmentVars, extraVars, staffVars,
                 routerVars, inventoryVars>>

\* inventoryService (the reason and userId arguments of updateStock only
\* pass into the movement record and are left out).
CreateInventory(data, salonId) ==
  LET r == CreateInventoryResult(inventory, nextItemId, data, salonId)
  IN  /\ inventory' = r.store
      /\ nextItemId' = nextItemId + 1
      /\ initialStock' = initialStock @@ (nextItemId :> data.stockLevel)
      /\ last' = Returned("createInventory", r.outcome)
      /\ UNCHANGED <<movements, spc, sloc, appointmentVars, extraVars, staffVars, routerVars, dbVars>>

UpdateInventory(itemId, updateData, salonId) ==
  LET r == UpdateInventoryResult(inventory, itemId, updateData, salonId)
  IN  /\ inventory' = r.store
      /\ last' = Returned("updateInventory", r.outcome)
      /\ UNCHANGED <<nextItemId, initialStock, movements, spc, sloc, appointmentVars, extraVars,
                     staffVars, routerVars, dbVars>>

DeleteInventory(itemId, salonId) ==
  LET r == DeleteInventoryResult(inventory, itemId, salonId)
  IN  /\ inventory' = r.store
      /\ last' = Returned("deleteInventory", r.outcome)
      /\ UNCHANGED <<nextItemId, initialStock, movements, spc, sloc, appointmentVars, extraVars,
                     staffVars, routerVars, dbVars>>

\* updateStock run from its call to its return with no other call between.
UpdateStock(itemId, quantity, type, salonId) ==
  /\ \E r \in UpdateStockResults(inventory, movements, itemId, quantity, type, salonId) :
       /\ inventory' = r.store
       /\ movements' = r.movements
       /\ last' = Returned("updateStock", r.outcome)
  /\ UNCHANGED <<nextItemId, initialStock, spc, sloc, appointmentVars, extraVars, staffVars,
                 routerVars, dbVars>>

AdjustStockLevels(adjustments, salonId) ==
  /\ \E r \in AdjustStockLevelsResults(inventory, movements, adjustments, salonId) :
       /\ inventory' = r.store
       /\ movements' = r.movements
       /\ last' = Returned("adjustStockLevels", r.outcome)
  /\ UNCHANGED <<nextItemId, initialStock, spc, sloc, appointmentVars, extraVars, staffVars,
                 routerVars, dbVars>>

PerformStockCount(salonId, countData) ==
  /\ \E strictQuery \in BOOLEAN :
       \E r \in PerformStockCountResults(inventory, movements, countData, salonId, strictQuery) :
         /\ inventory' = r.store
         /\ movements' = r.movements
         /\ last' = Returned("performStockCount", r.outcome)
  /\ UNCHANGED <<nextItemId, initialStock, spc, sloc, appointmentVars, extraVars, staffVars,
                 routerVars, dbVars>>

TrackServiceUsage(usedProducts) ==
  /\ \E r \in TrackServiceUsageResults(inventory, movements, usedProducts) :
       /\ inventory' = r.store
       /\ movements' = r.movements
       /\ last' = Returned("trackServiceUsage", r.outcome)
  /\ UNCHANGED <<nextItemId, initialStock, spc, sloc, appointmentVars, extraVars, staffVars,
                 routerVars, dbVars>>

\* updateStock calls in flight: each awaits the findOne, the item.save() and
\* the movement.save(); another call's steps run between them.
UpdateStockFind(p, itemId, quantity, type, salonId) ==
  LET plan == StockPlan(inventory, itemId, quantity, type, salonId)
  IN  /\ spc[p] = "start"
      /\ sloc' = [sloc EXCEPT ![p] = Some(plan)]
      /\ IF plan.outcome # "ok"
           THEN /\ spc' = [spc EXCEPT ![p] = "threw"]
                /\ last' = Returned("updateStock", plan.outcome)
           ELSE /\ spc' = [spc EXCEPT ![p] = "found"]
                /\ UNCHANGED last
      /\ UNCHANGED <<inventory, nextItemId, initialStock, movements, appointmentVars, extraVars,
                     staffVars, routerVars, dbVars>>

UpdateStockSave(p) ==
  /\ spc[p] = "found"
  /\ inventory' = SaveItem(inventory, The(sloc[p]))
  /\ spc' = [spc EXCEPT ![p] = "saved"]
  /\ UNCHANGED <<last, sloc, nextItemId, initialStock, movements, appointmentVars, extraVars,
                 staffVars, routerVars, dbVars>>

UpdateStockMovement(p) ==
  /\ spc[p] = "saved"
  /\ \E o \in MovementSaveOutcomes(NewMovement(The(sloc[p]))) :
       /\ movements' = IF o = "ok"
                          THEN Append(movements, NewMovement(The(sloc[p])))
                          ELSE movements
       /\ spc' = [spc EXCEPT ![p] = IF o = "ok" THEN "returned" ELSE "threw"]
       /\ last' = Returned("updateStock", o)
  /\ UNCHANGED <<inventory, sloc, nextItemId, initialStock, appointmentVars, extraVars, staffVars,
                 routerVars, dbVars>>

CreatePurchaseOrder(salonId) ==
  /\ purchaseOrders' = purchaseOrders \cup {NewPurchaseOrder(nextOrderId, salonId)}
  /\ nextOrderId' = nextOrderId + 1
  /\ last' = Returned("createPurchaseOrder", "ok")
  /\ UNCHANGED <<appointmentVars, staffVars, routerVars, dbVars, inventoryVars,
                 notificationVars>>

ReceivePurchaseOrder(orderId, receivingData) ==
  /\ \E r \in ReceivePurchaseOrderResults(inventory, movements, purchaseOrders, orderId,
                                          receivingData) :
       /\ inventory' = r.store
       /\ movements' = r.movements
       /\ purchaseOrders' = r.orders
       /\ last' = Returned("receivePurchaseOrder", r.outcome)
  /\ UNCHANGED <<nextItemId, initialStock, spc, sloc, nextOrderId, appointmentVars,
                 staffVars, routerVars, dbVars, notificationVars>>

\* notificationService and the statics of the Notification model.
\* createNotification saves the document and then attempts the delivery,
\* which writes status and sentAt only.
CreateNotification(userId) ==
  /\ notifications' = notifications \cup {NewNotification(nextNotificationId, userId)}
  /\ nextNotificationId' = nextNotificationId + 1
  /\ last' = Returned("createNotification", "ok")
  /\ UNCHANGED <<appointmentVars, staffVars, routerVars, dbVars, inventoryVars, purchaseVars>>

MarkAsRead(notificationId, userId) ==
  LET r == MarkAsReadResult(notifications, notificationId, userId)
  IN  /\ notifications' = r.store
      /\ last' = IF r.outcome = "null" THEN ReturnedNull("markAsRead")
                                       ELSE Returned("markAsRead", "ok")
      /\ UNCHANGED <<nextNotificationId, appointmentVars, staffVars, routerVars, dbVars,
                     inventoryVars, purchaseVars>>

MarkMultipleAsRead(notificationIds, userId) ==
  LET r == MarkMultipleAsReadResult(notifications, notificationIds, userId)
  IN  /\ notifications' = r.store
      /\ last' = Returned("markMultipleAsRead", r.outcome)
      /\ UNCHANGED <<nextNotificationId, appointmentVars, staffVars, routerVars, dbVars,
                     inventoryVars, purchaseVars>>

Init ==
  /\ appointments = {}
  /\ nextId = 1
  /\ requested = <<>>
  /\ last = Returned("none", "ok")
  /\ pc = [p \in Procs |-> "start"]
  /\ req = [p \in Procs |-> None]
  /\ staff = StaffRecords
  /\ models = [c \in Connections |-> {}]
  /\ uri = [c \in Connections |-> None]
  /\ dbpc = [c \in Connections |-> "idle"]
  /\ readyState = [c \in Connections |-> "disconnected"]
  /\ connectPc = "idle"
  /\ exitCode = None
  /\ log = <<>>
  /\ inventory = {}
  /\ nextItemId = 1
  /\ initialStock = <<>>
  /\ movements = <<>>
  /\ spc = [p \in Procs |-> "start"]
  /\ sloc = [p \in Procs |-> None]
  /\ purchaseOrders = {}
  /\ nextOrderId = 1
  /\ notifications = {}
  /\ nextNotificationId = 1

\* What a booking request (createAppointment's data) may carry.
BookingData(TenantSet, TimeSet, DurationSet) ==
  [tenantId : Opt(TenantSet), staffId : StaffIds, scheduledAt : TimeSet,
   duration : DurationSet]

\* What updateAppointment's updateData may carry.
UpdateData(TimeSet) ==
  [scheduledAt : Opt(TimeSet), staffId : Opt(StaffIds),
   duration : Opt({30}), status : Opt({"booked"})]

\* The service's calls, one at a time, with arguments from the given sets:
\* the tenants that book, the salons callers act for, the instants and the
\* status strings they pass, the durations bookings ask for.  At most Cap
\* bookings are ever stored; a booking that is refused is always possible.
Calls(Cap, TenantSet, SalonSet, TimeSet, StatusSet, DurationSet) ==
  \/ \E data \in BookingData(TenantSet, TimeSet, DurationSet) :
       /\ CreateResult(appointments, nextId, data).outcome = "ok" => nextId <= Cap
       /\ CreateAppointment(data)
  \/ \E id \in 1..Cap, u \in UpdateData(TimeSet), salonId \in SalonSet :
       UpdateAppointment(id, u, salonId)
  \/ \E id \in 1..Cap, status \in StatusSet, salonId \in SalonSet :
       UpdateAppointmentStatus(id, status, salonId)
  \/ \E id \in 1..Cap, salonId \in SalonSet : CancelAppointment(id, salonId)
  \/ \E id \in 1..Cap, salonId \in SalonSet : HandleNoShow(id, salonId)
  \/ \E id \in 1..Cap, salonId \in SalonSet : DeleteAppointment(id, salonId)
  \/ \E id \in 1..Cap, t \in TimeSet, staffId \in Opt(StaffIds), salonId \in SalonSet :
       RescheduleAppointment(id, t, staffId, salonId)
  \/ \E staffId \in StaffArgs, t \in TimeSet, d \in Opt({30}), ex \in Opt(1..Cap) :
       CheckStaffAvailabilityCall(staffId, t, d, ex)

\* Scheduling in one salon, over the whole grid, every booking of the default
\* length (duration absent or 0).
Next == Calls(MaxAppts, {"t1"}, {"t1"}, Times, StatusArgs, Opt({0}))

Spec == Init /\ [][Next]_vars

\* Availability queries between bookings and cancellations of both salons:
\* callers ask checkStaffAvailability and getAvailableTimeSlots.
NextAvailability ==
  \/ \E data \in BookingData(Tenants, Times, Opt({0})) :
       /\ CreateResult(appointments, nextId, data).outcome = "ok" => nextId <= MaxAppts
       /\ CreateAppointment(data)
  \/ \E id \in Ids, salonId \in Tenants : CancelAppointment(id, salonId)
  \/ \E staffId \in StaffArgs, t \in Times, d \in Opt({30}), ex \in Opt(Ids) :
       CheckStaffAvailabilityCall(staffId, t, d, ex)
  \/ \E salonId \in Tenants, d \in Opt({30}), staffId \in Opt(StaffArgs) :
       GetAvailableTimeSlots(salonId, 0, d, staffId)

SpecAvailability == Init /\ [][NextAvailability]_vars

\* Bookings of different lengths (30 and 60 minutes) side by side.
NextDurations == Calls(MaxOverlapping, {"t1"}, {"t1"}, Times, {"booked"}, DataDurations)

SpecDurations == Init /\ [][NextDurations]_vars

\* What createInventory's data and updateInventory's updateData may carry.
InventoryData == [quantity : Opt({5}), stockLevel : Opt({5})]
ItemUpdateData == [quantity : Opt({7}), stockLevel : Opt({7})]
\* The type argument of updateStock: "add", or anything else.
StockTypes == {"add", "remove"}

\* The inventory service's calls, one at a time, for the given salons and
\* quantities; at most MaxItems items are created and MaxMovements
\* movements recorded.
InventoryCalls(SalonSet, QuantitySet) ==
  \/ \E data \in InventoryData, salonId \in SalonSet :
       /\ nextItemId <= MaxItems
       /\ CreateInventory(data, salonId)
  \/ \E itemId \in ItemIds, u \in ItemUpdateData, salonId \in SalonSet :
       UpdateInventory(itemId, u, salonId)
  \/ \E itemId \in ItemIds, salonId \in SalonSet : DeleteInventory(itemId, salonId)
  \/ \E itemId \in ItemIds, quantity \in QuantitySet, type \in StockTypes, salonId \in SalonSet :
       /\ Len(movements) < MaxMovements
       /\ UpdateStock(itemId, quantity, type, salonId)

\* Item ids a caller may pass: those of the items and one of no item.
ItemArgs == 1..(MaxItems + 1)

\* Lists of up to two entries.
UpToTwo(S) == {<<>>} \cup {<<x>> : x \in S} \cup {<<x, y>> : x \in S, y \in S}

Adjustments(QuantitySet) == [itemId : ItemArgs, quantity : QuantitySet, type : StockTypes]

PhysicalCounts == {3, 5}
CountData == [itemId : ItemArgs, physicalCount : PhysicalCounts]

UsedProducts(QuantitySet) == [itemId : ItemArgs, quantity : QuantitySet]

ReceivingData(QuantitySet) == [itemId : ItemArgs, quantity : QuantitySet]

\* Quantities and types a caller may pass to updateStock: negative,
\* positive, undefined; "add", "remove" and anything else.
QuantityArgs == {Some(-1), Some(1), Some(6), None}
TypeArgs == StockTypes \cup {"adjust"}

\* Two salons side by side: bookings of both tenants, callers acting for
\* either salon, on the first two instants of the grid.
TenantTimes == {t \in Times : t <= 615}
NextTenants == Calls(MaxAppts, Tenants, Tenants, TenantTimes, {"completed"}, Opt({0}))

SpecTenants == Init /\ [][NextTenants]_vars

\* Model routing: the model modules call createModel, callers ask
\* getConnection; at most MaxModels models are compiled.
CompiledCount(reg) == Cardinality(reg["superAdmin"]) + Cardinality(reg["salonAdmin"])
NextRouter ==
  \/ \E modelName \in ModelNames : GetConnectionCall(modelName)
  \/ \E modelName \in ModelNames, schema \in Schemas :
       /\ CompiledCount(CreateModelResult(models, modelName, schema).models) <= MaxModels
       /\ CreateModel(modelName, schema)

SpecRouter == Init /\ [][NextRouter]_vars

\* The inventory of two salons, callers acting for either salon.
NextInventory ==
  \/ InventoryCalls(Tenants, {Some(1)})
  \/ \E adjustments \in UpToTwo(Adjustments({Some(1)})), salonId \in Tenants :
       /\ Len(movements) + Len(adjustments) <= MaxMovements
       /\ AdjustStockLevels(adjustments, salonId)
  \/ \E countData \in UpToTwo(CountData), salonId \in Tenants :
       /\ Len(movements) + Len(countData) <= MaxMovements
       /\ PerformStockCount(salonId, countData)
  \/ \E usedProducts \in UpToTwo(UsedProducts({Some(1)})) :
       /\ Len(movements) + Len(usedProducts) <= MaxMovements
       /\ TrackServiceUsage(usedProducts)
  \/ \E itemId \in ItemIds, quantity \in QuantityArgs, type \in TypeArgs, salonId \in Tenants :
       /\ Len(movements) < MaxMovements
       /\ UpdateStock(itemId, quantity, type, salonId)
  \/ \E salonId \in Tenants :
       /\ nextOrderId <= MaxOrders
       /\ CreatePurchaseOrder(salonId)
  \/ \E orderId \in OrderArgs, receivingData \in UpToTwo(ReceivingData({Some(1)})) :
       /\ Len(movements) + Len(receivingData) <= MaxMovements
       /\ ReceivePurchaseOrder(orderId, receivingData)

SpecInventory == Init /\ [][NextInventory]_vars

\* Start-up: connectDB with whatever the environment holds, while the model
\* modules that are required compile their models on the two connections.
NextDB ==
  \/ \E modelName \in {"User", "Notification", "Appointment"} :
       /\ exitCode = None
       /\ CreateModel(modelName, "schemaA")
  \/ \E superAdminUri \in EnvUris, salonAdminUri \in EnvUris :
       ConnectDB(superAdminUri, salonAdminUri)
  \/ \E c \in Connections : OpenUriResolves(c)
  \/ \E c \in Connections : OpenUriRejects(c)
  \/ ConnectDBResolves

SpecDB == Init /\ [][NextDB]_vars

\* Notifications of two users: created, marked read through the service and
\* through the model's static.
NextNotifications ==
  \/ \E userId \in Users :
       /\ nextNotificationId <= MaxNotifications
       /\ CreateNotification(userId)
  \/ \E notificationId \in NotificationIds, userId \in Users :
       MarkAsRead(notificationId, userId)
  \/ \E notificationIds \in SUBSET NotificationIds, userId \in Users :
       MarkMultipleAsRead(notificationIds, userId)

SpecNotifications == Init /\ [][NextNotifications]_vars

\* Stock updates in flight: NumProcs updateStock calls interleaved at their
\* awaits, on the items of one salon.
NextStock ==
  \/ \E data \in InventoryData :
       /\ nextItemId <= MaxItems
       /\ CreateInventory(data, "t1")
  \/ \E p \in Procs, itemId \in ItemIds, quantity \in {Some(1), Some(2)}, type \in StockTypes :
       UpdateStockFind(p, itemId, quantity, type, "t1")
  \/ \E p \in Procs : UpdateStockSave(p)
  \/ \E p \in Procs : UpdateStockMovement(p)

SpecStock == Init /\ [][NextStock]_vars

\* Concurrent bookings: NumProcs createAppointment calls interleaved at their
\* awaits.
NextConcurrent ==
  \/ \E p \in Procs, data \in BookingData({"t1"}, Times, DataDurations) : CreateCheck(p, data)
  \/ \E p \in Procs : CreateSave(p)

SpecConcurrent == Init /\ [][NextConcurrent]_vars

\* -------------------------------------------------------------- properties
\* The end of a stored appointment: its start plus the duration its booking
\* asked for.
EndOf(a) == a.scheduledAt + requested[a._id]
Active(a) == a.status \in {"booked", "in-progress"}
IntervalsOverlap(a, b) == a.scheduledAt < EndOf(b) /\ b.scheduledAt < EndOf(a)

\* C1: no staff member has two stored appointments with status booked or
\* in-progress whose intervals [start, start + duration) overlap.
C1_NoDoubleBooking ==
  \A a \in appointments, b \in appointments :
    (a._id # b._id /\ a.staffId = b.staffId /\ Active(a) /\ Active(b))
      => ~IntervalsOverlap(a, b)

\* C2: two concurrent createAppointment calls for the same staff member and
\* the same start never both succeed.
C2_AtMostOneBookingPerWindow ==
  \A p \in Procs, q \in Procs :
    (p # q /\ pc[p] = "returned" /\ pc[q] = "returned")
      => ~(/\ The(req[p]).staffId = The(req[q]).staffId
           /\ The(req[p]).scheduledAt = The(req[q]).scheduledAt)

\* C3: checkStaffAvailability is false exactly when an active appointment of
\* the staff member overlaps the candidate window in the symmetric sense
\* existing.start < new.end and existing.end > new.start.
C3_SymmetricOverlapContract ==
  \A staffId \in StaffArgs, t \in Times, d \in {30, 60} :
    CheckStaffAvailability(appointments, staffId, t, Some(d), None)
      = ~(\E a \in appointments :
            /\ a.staffId = staffId /\ Active(a)
            /\ a.scheduledAt < t + d /\ EndOf(a) > t)

\* C4: checkStaffAvailability is true iff no stored appointment has the same
\* staffId, a status in {booked, in-progress}, an id other than the excluded
\* one and a start s with start <= s < start + duration, an omitted duration
\* counting as 60 minutes; every instant of the grid is treated alike.
C4_StartInWindowContract ==
  \A staffId \in StaffArgs, t \in Times, d \in DurationArgs, ex \in Opt(Ids) :
    CheckStaffAvailability(appointments, staffId, t, d, ex)
      = ~(\E a \in appointments :
            /\ a.staffId = staffId
            /\ a.status \in {"booked", "in-progress"}
            /\ a._id \notin ex
            /\ t <= a.scheduledAt
            /\ a.scheduledAt < t + (IF d = None THEN 60 ELSE The(d)))

\* A direct call answered false while an active appointment starts in a
\* window of the grid, and a default-length window reaches further than a
\* 30 minute one.
C4_Witness ==
  /\ last = Returned("checkStaffAvailability", "false")
  /\ \E a \in appointments :
       /\ Active(a)
       /\ ~CheckStaffAvailability(appointments, a.staffId, a.scheduledAt - 30, None, None)
       /\ CheckStaffAvailability(appointments, a.staffId, a.scheduledAt - 30, Some(30), None)

\* C5: after createAppointment books slot S and rescheduleAppointment moves
\* that appointment to another, free slot T of the same staff member,
\* checkStaffAvailability is true for S and false for T.
C5_RescheduleRoundTrip ==
  [][(/\ last = Returned("createAppointment", "ok")
      /\ last' = Returned("rescheduleAppointment", "ok"))
       => \A a \in appointments, b \in appointments' :
            (/\ a._id = nextId - 1 /\ b._id = a._id
             /\ b.staffId = a.staffId /\ b.scheduledAt # a.scheduledAt)
              => /\ CheckStaffAvailability(appointments', a.staffId, a.scheduledAt, None, None)
                 /\ ~CheckStaffAvailability(appointments', b.staffId, b.scheduledAt, None, None)]_vars

\* C6: for every stored appointment A, checkStaffAvailability excluding A
\* answers as it would with A not stored.
C6_ExcludeIsRemoval ==
  \A a \in appointments, staffId \in StaffArgs, t \in Times, d \in DurationArgs :
    CheckStaffAvailability(appointments, staffId, t, d, Some(a._id))
      = CheckStaffAvailability(appointments \ {a}, staffId, t, d, None)

\* A is the only active appointment of its staff member in its window: the
\* window is taken without the exclusion and free with it.
C6_Witness ==
  /\ last.op = "checkStaffAvailability"
  /\ \E a \in appointments :
       /\ Active(a)
       /\ ~CheckStaffAvailability(appointments, a.staffId, a.scheduledAt, Some(30), None)
       /\ CheckStaffAvailability(appointments, a.staffId, a.scheduledAt, Some(30), Some(a._id))

StartsInWindow(a, staffId, t, d) ==
  /\ a.staffId = staffId
  /\ t <= a.scheduledAt
  /\ a.scheduledAt < t + (IF d = None THEN 60 ELSE The(d))

\* C7: appointments with status cancelled or no-show never count as
\* conflicts, and once cancelAppointment or handleNoShow is applied to the
\* only appointment of a staff member in a window, that window is available.
C7_CancelledNeverConflicts ==
  /\ \A staffId \in StaffArgs, t \in Times, d \in DurationArgs :
       (\A a \in appointments :
          StartsInWindow(a, staffId, t, d) => a.status \in {"cancelled", "no-show"})
         => CheckStaffAvailability(appointments, staffId, t, d, None)
  /\ \A a \in appointments, t \in Times, d \in DurationArgs :
       (\A b \in appointments : StartsInWindow(b, a.staffId, t, d) => b = a)
         => /\ CheckStaffAvailability(CancelResult(appointments, a._id, a.tenantId).store,
                                      a.staffId, t, d, None)
            /\ CheckStaffAvailability(NoShowResult(appointments, a._id, a.tenantId).store,
                                      a.staffId, t, d, None)

\* cancelAppointment or handleNoShow has just been applied to the only
\* appointment, and its window is available.
C7_Witness ==
  /\ last \in {Returned("cancelAppointment", "ok"), Returned("handleNoShow", "ok")}
  /\ \E a \in appointments :
       /\ appointments = {a}
       /\ a.status \in {"cancelled", "no-show"}
       /\ CheckStaffAvailability(appointments, a.staffId, a.scheduledAt, Some(30), None)

\* The closed set of statuses of the data model.
ClosedStatuses ==
  {"booked", "completed", "cancelled", "no-show", "rescheduled", "in-progress"}

\* C8: every stored appointment's status is one of booked, completed,
\* cancelled, no-show, rescheduled, in-progress.
C8_StatusInClosedSet ==
  \A a \in appointments : a.status \in ClosedStatuses

\* C9: when the availability check fails, createAppointment,
\* updateAppointment and rescheduleAppointment throw the conflict error and
\* leave the stored appointments as they were; no call that ends in the
\* conflict error changes the collection or takes an id.
C9_ConflictRaised ==
  /\ \A data \in BookingData(Tenants, Times, DataDurations) :
       ~CreateAvailable(appointments, data)
         => CreateResult(appointments, nextId, data) = Result(appointments, "Conflict")
  /\ \A id \in Ids, u \in UpdateData(Times), salonId \in Tenants :
       (UpdateChecked(u) /\ ~UpdateAvailable(appointments, id, u))
         => UpdateResult(appointments, id, u, salonId) = Result(appointments, "Conflict")
  /\ \A a \in appointments, t \in Times, staffId \in Opt(StaffIds) :
       ~RescheduleAvailable(appointments, a, t, staffId)
         => RescheduleResult(appointments, a._id, t, staffId, a.tenantId)
              = Result(appointments, "Conflict")

C10_UnknownStaffNotFound ==
  \A staffId \in StaffArgs, t \in Times, d \in DurationArgs :
    ~ResolvesToActiveStaff(staffId)
      => CheckOutcome(appointments, staffId, t, d, None) = "NotFound"

\* C11: checkStaffAvailability answers a null or a negative duration with
\* ValidationError rather than with an availability answer.
C11_InvalidDurationRejected ==
  \A staffId \in StaffArgs, t \in Times, ex \in Opt(Ids) :
    /\ \A d \in DurationArgs :
         (d # None /\ The(d) < 0)
           => CheckOutcome(appointments, staffId, t, d, ex) = "ValidationError"
    /\ NullDurationOutcomes(appointments, staffId, t, ex) = {"ValidationError"}

\* C12: rescheduleAppointment, updateAppointment, updateAppointmentStatus,
\* cancelAppointment and handleNoShow, called for an appointment that does
\* not exist in the given salon, signal NotFound, change nothing and leave
\* no unhandled failure behind.
MissingIn(appointmentId, salonId) ==
  FindByIdAndTenant(appointments, appointmentId, salonId) = {}
SignalsNotFound(op, r) ==
  /\ r = Result(appointments, "NotFound")
  /\ ~Notified(op, r.outcome).unhandled

C12_MissingAppointmentNotFound ==
  \A id \in Ids, salonId \in Tenants :
    MissingIn(id, salonId) =>
      /\ \A t \in TenantTimes, staffId \in Opt(StaffIds) :
           SignalsNotFound("rescheduleAppointment",
                           RescheduleResult(appointments, id, t, staffId, salonId))
      /\ \A u \in UpdateData(TenantTimes) :
           SignalsNotFound("updateAppointment", UpdateResult(appointments, id, u, salonId))
      /\ \A status \in StatusArgs :
           SignalsNotFound("updateAppointmentStatus",
                           UpdateStatusResult(appointments, id, status, salonId))
      /\ SignalsNotFound("cancelAppointment", CancelResult(appointments, id, salonId))
      /\ SignalsNotFound("handleNoShow", NoShowResult(appointments, id, salonId))

\* C13: getConnection is a total function of the model name: the super-admin
\* connection exactly for User, Subscription and Notification, the
\* salon-admin connection for the ten salon models and for every name in
\* neither list; the two lists have no name in common.
PlatformKinds == {"User", "Subscription", "Notification"}
TenantKinds ==
  {"Salon", "Staff", "Customer", "Appointment", "Service", "Invoice",
   "Inventory", "Review", "Loyalty", "WalletTransaction"}
C13_GetConnectionTotal ==
  /\ \A modelName \in ModelNames :
       /\ GetConnection(modelName) \in Connections
       /\ GetConnection(modelName) = "superAdmin" <=> modelName \in PlatformKinds
       /\ modelName \in TenantKinds => GetConnection(modelName) = "salonAdmin"
       /\ modelName \notin PlatformKinds \cup TenantKinds
            => GetConnection(modelName) = "salonAdmin"
  /\ \A i \in DOMAIN SUPER_ADMIN_MODELS, j \in DOMAIN SALON_ADMIN_MODELS :
       SUPER_ADMIN_MODELS[i] # SALON_ADMIN_MODELS[j]
  /\ last.op = "getConnection" => last.outcome \in Connections

C13_Witness ==
  /\ last.op = "getConnection" /\ last.outcome = "superAdmin"
  /\ \E m \in models["salonAdmin"] : m.name \notin PlatformKinds \cup TenantKinds

C15_AvailabilityReadOnly ==
  [][last'.op \in {"checkStaffAvailability", "getAvailableTimeSlots"}
       => (appointments' = appointments /\ staff' = staff)]_vars

C15_Witness ==
  /\ last.op = "getAvailableTimeSlots"
  /\ appointments # {}
  /\ last.slots # {}
  /\ \E s \in staff, t \in SlotTimes(0) :
       s.tenantId = "t1" /\ [staffId |-> s._id, time |-> t] \notin last.slots

\* C16: cancelAppointment, handleNoShow, updateAppointmentStatus,
\* updateAppointment and rescheduleAppointment change fields of an existing
\* appointment but never remove it and never create another one; an
\* appointment leaves storage only by deleteAppointment.
IdsOf(store) == {a._id : a \in store}
KeepsDocuments(r) ==
  IdsOf(r.store) = IdsOf(appointments)
    /\ Cardinality(r.store) = Cardinality(appointments)

C16_MutatorsKeepDocuments ==
  \A id \in Ids, salonId \in Tenants :
    /\ KeepsDocuments(CancelResult(appointments, id, salonId))
    /\ KeepsDocuments(NoShowResult(appointments, id, salonId))
    /\ \A status \in StatusArgs :
         KeepsDocuments(UpdateStatusResult(appointments, id, status, salonId))
    /\ \A u \in UpdateData(TenantTimes) :
         KeepsDocuments(UpdateResult(appointments, id, u, salonId))
    /\ \A t \in TenantTimes, staffId \in Opt(StaffIds) :
         KeepsDocuments(RescheduleResult(appointments, id, t, staffId, salonId))

C16_RemovedOnlyByDelete ==
  /\ []C16_MutatorsKeepDocuments
  /\ [][IdsOf(appointments) \ IdsOf(appointments') # {}
          => last'.op = "deleteAppointment"]_vars

C16_Witness ==
  /\ last.op = "cancelAppointment" /\ last.outcome = "ok"
  /\ \E a \in appointments : a.status = "cancelled"

\* C17: tenant isolation.  The appointment mutators and updateInventory,
\* deleteInventory and updateStock, called with salonId S, never modify or
\* delete a document whose tenantId differs from S, and rescheduleAppointment
\* never assigns an appointment of S to a staff member of another tenant.
OthersUntouched(before, after, salonId) ==
  \A d \in before : d.tenantId # salonId => d \in after

C17_AppointmentsIsolated ==
  \A id \in Ids, salonId \in Tenants :
    /\ \A u \in UpdateData(TenantTimes) :
         OthersUntouched(appointments, UpdateResult(appointments, id, u, salonId).store, salonId)
    /\ \A status \in StatusArgs :
         OthersUntouched(appointments,
                         UpdateStatusResult(appointments, id, status, salonId).store, salonId)
    /\ OthersUntouched(appointments, CancelResult(appointments, id, salonId).store, salonId)
    /\ OthersUntouched(appointments, DeleteResult(appointments, id, salonId).store, salonId)
    /\ OthersUntouched(appointments, NoShowResult(appointments, id, salonId).store, salonId)
    /\ \A t \in TenantTimes, staffId \in Opt(StaffIds) :
         OthersUntouched(appointments,
                         RescheduleResult(appointments, id, t, staffId, salonId).store, salonId)

C17_InventoryIsolated ==
  \A itemId \in ItemIds, salonId \in Tenants :
    /\ \A u \in ItemUpdateData :
         OthersUntouched(inventory, UpdateInventoryResult(inventory, itemId, u, salonId).store,
                         salonId)
    /\ OthersUntouched(inventory, DeleteInventoryResult(inventory, itemId, salonId).store, salonId)
    /\ \A quantity \in {Some(1), Some(2)}, type \in StockTypes :
         LET plan == StockPlan(inventory, itemId, quantity, type, salonId)
         IN  plan.outcome = "ok" => OthersUntouched(inventory, SaveItem(inventory, plan), salonId)

C17_RescheduleStaffOfSalon ==
  \A id \in Ids, salonId \in Tenants, t \in TenantTimes, newStaffId \in StaffIds :
    LET r == RescheduleResult(appointments, id, t, Some(newStaffId), salonId)
    IN  r.outcome = "ok" =>
          \A a \in FindByIdAndTenant(r.store, id, salonId) :
            \E s \in staff : s._id = a.staffId /\ s.tenantId = salonId

C17_TenantIsolation ==
  C17_AppointmentsIsolated /\ C17_InventoryIsolated /\ C17_RescheduleStaffOfSalon

\* C20: when several updateStock calls on one inventory item run
\* concurrently, the item's final stockLevel is its initial level plus the
\* sum of the signed changes of the calls that succeeded.
RECURSIVE SumOfChanges(_, _)
SumOfChanges(recorded, itemId) ==
  IF recorded = <<>> THEN Some(0)
  ELSE Plus(IF Head(recorded).itemId = itemId THEN Head(recorded).quantity ELSE Some(0),
            SumOfChanges(Tail(recorded), itemId))

AllStockCallsDone == \A p \in Procs : spc[p] \in {"returned", "threw"}
SomeStockCallSucceeded == \E p \in Procs : spc[p] = "returned"

C20_NoLostStockUpdate ==
  (AllStockCallsDone /\ SomeStockCallSucceeded) =>
    \A i \in inventory :
      initialStock[i._id] # None =>
        /\ ReadStockLevel(i) # None
        /\ ReadStockLevel(i) = Plus(initialStock[i._id], SumOfChanges(movements, i._id))

\* C18: whenever connectDB has resolved and the process is still running,
\* both superAdminConnection and salonAdminConnection are connected; a
\* connection attempt that throws ends the process with exit code 1.
C18_ConnectDBConnectsBoth ==
  /\ (connectPc = "resolved" /\ exitCode = None)
       => \A c \in Connections : readyState[c] = "connected"
  /\ \A c \in Connections : dbpc[c] = "exited" => exitCode = Some(1)

\* C19: updateAppointment validates the new time slot whenever the time is
\* changed: an update whose scheduledAt falls in a window where the
\* appointment's staff member (the one of updateData, else the stored one)
\* already has another active appointment is rejected, with or without
\* staffId in updateData.
C19_UpdateValidatesTimeChange ==
  \A id \in 1..MaxOverlapping, u \in UpdateData(Times) :
    LET found == FindByIdAndTenant(appointments, id, "t1")
        staffId == IF u.staffId = None THEN The(found).staffId ELSE The(u.staffId)
    IN  (/\ found # {}
         /\ u.scheduledAt # None
         /\ ~CheckStaffAvailability(appointments, staffId, The(u.scheduledAt),
                                    Some(OrDefault(u.duration)), Some(id)))
          => UpdateResult(appointments, id, u, "t1").outcome = "Conflict"

\* C21: adjustStockLevels updates multiple items atomically: when one of
\* the adjustments of a call fails because its item is not found or its
\* stock is insufficient, none of that call's adjustments is applied to the
\* stock levels or recorded as a movement.
C21_AdjustmentsAllOrNothing ==
  \A adjustments \in UpToTwo(Adjustments({Some(1)})), salonId \in Tenants :
    \A r \in AdjustStockLevelsResults(inventory, movements, adjustments, salonId) :
      r.outcome \in {"NotFound", "InsufficientStock"} =>
        r.store = inventory /\ r.movements = movements

\* C22: after performStockCount(salonId, countData, userId) completes,
\* every item of that salon listed in countData has a stockLevel equal to
\* its physicalCount, and an adjustment movement was recorded for exactly
\* the listed items whose count differed from the system quantity.
Listed(countData) == {countData[k].itemId : k \in DOMAIN countData}
MovedItems(before, after) == {after[k].itemId : k \in (Len(before) + 1)..Len(after)}

C22_StockCountSetsLevels ==
  \A countData \in UpToTwo(CountData), salonId \in Tenants, strictQuery \in BOOLEAN :
    \A r \in PerformStockCountResults(inventory, movements, countData, salonId, strictQuery) :
      (r.outcome = "ok" /\ Cardinality(Listed(countData)) = Len(countData)) =>
        /\ \A k \in DOMAIN countData :
             \A i \in FindItem(r.store, countData[k].itemId, salonId) :
               ReadStockLevel(i) = Some(countData[k].physicalCount)
        /\ MovedItems(movements, r.movements) =
             {countData[k].itemId : k \in
                {j \in DOMAIN countData :
                   \E i \in FindItem(inventory, countData[j].itemId, salonId) :
                     ReadStockLevel(i) # Some(countData[j].physicalCount)}}

\* C23: trackServiceUsage(appointmentId, serviceId, usedProducts) lowers
\* the stockLevel of every listed product by the quantity used and records
\* one removal movement per product.
AllInStock(usedProducts) ==
  \A k \in DOMAIN usedProducts : \E i \in inventory : i._id = usedProducts[k].itemId

C23_UsageLowersStock ==
  \A usedProducts \in UpToTwo(UsedProducts({Some(1)})) :
    AllInStock(usedProducts) =>
      \A r \in TrackServiceUsageResults(inventory, movements, usedProducts) :
        /\ r.outcome = "ok"
        /\ Len(r.movements) = Len(movements) + Len(usedProducts)
        /\ \A k \in DOMAIN usedProducts :
             /\ r.movements[Len(movements) + k].itemId = usedProducts[k].itemId
             /\ r.movements[Len(movements) + k].type = "remove"

\* C24: after the service's markAsRead(notificationId, userId) on an unread
\* notification owned by userId, Notification.getUnreadCount(userId) is one
\* lower than before; when the notification is owned by a different user,
\* nothing changes.
C24_MarkAsReadLowersUnreadCount ==
  \A n \in notifications, userId \in Users :
    LET r == MarkAsReadResult(notifications, n._id, userId)
    IN  IF n.userId # userId THEN r.store = notifications
        ELSE n.isRead = FALSE =>
               GetUnreadCount(r.store, userId) = GetUnreadCount(notifications, userId) - 1

\* C25: given initial stock levels that are not negative, every item's
\* stockLevel is a number that is not negative in every state reached by
\* updateStock, adjustStockLevels, performStockCount, receivePurchaseOrder
\* and trackServiceUsage run one at a time, with any quantity and any type.
StockOperations ==
  {"updateStock", "adjustStockLevels", "performStockCount", "receivePurchaseOrder",
   "trackServiceUsage"}

C25_StockLevelNeverNegative ==
  last.op \in StockOperations =>
    \A i \in inventory :
      (initialStock[i._id] # None /\ The(initialStock[i._id]) >= 0) =>
        (ReadStockLevel(i) # None /\ The(ReadStockLevel(i)) >= 0)

\* C26: when updateStock fails, because the item does not exist in the
\* salon or because the resulting stock level would be negative, it raises
\* an error, leaves the item unchanged and records no movement. The level
\* an item should hold is the one createInventory was given plus the
\* changes recorded since.
LevelByRecords(itemId) == Plus(initialStock[itemId], SumOfChanges(movements, itemId))

ShouldFail(itemId, quantity, type, salonId) ==
  \/ FindItem(inventory, itemId, salonId) = {}
  \/ Negative(Plus(LevelByRecords(itemId), StockChange(quantity, type)))

C26_FailedUpdateChangesNothing ==
  \A itemId \in ItemArgs, quantity \in QuantityArgs, type \in TypeArgs, salonId \in Tenants :
    ShouldFail(itemId, quantity, type, salonId) =>
      \A r \in UpdateStockResults(inventory, movements, itemId, quantity, type, salonId) :
        /\ r.outcome \in {"NotFound", "InsufficientStock"}
        /\ r.store = inventory
        /\ r.movements = movements

\* C27: a purchase order's received quantities are added to stock at most
\* once: receivePurchaseOrder on an order whose status is received adds no
\* stock, and an order has status received only if the stock of all its
\* received items was added.
C27_ReceivedAtMostOnce ==
  \A orderId \in OrderIds, receivingData \in UpToTwo(ReceivingData({Some(1)})) :
    \A o \in {x \in purchaseOrders : x._id = orderId} :
      \A r \in ReceivePurchaseOrderResults(inventory, movements, purchaseOrders, orderId,
                                           receivingData) :
        /\ o.status = "received" => (r.store = inventory /\ r.movements = movements)
        /\ (o.status = "pending" /\ r.outcome # "ok") =>
             \A x \in r.orders : x._id = orderId => x.status # "received"
====
